---------------------------- MODULE Spec2Model ----------------------------
(***************************************************************************)
(* The four tool handlers of src/mcp_server/mcp_server.py (get_customers,  *)
(* insert_customer_into_db, get_products, place_order) over the one shared *)
(* psycopg2 connection and cursor `db`.                                    *)
(*                                                                         *)
(* Every database call of a handler (execute, fetchone, fetchall, commit,  *)
(* rollback) is one step, so that two calls in flight can interleave on    *)
(* the shared cursor.  Spec dispatches one call at a time; SpecConc lets   *)
(* two calls run at once; SpecProducts runs get_products over every small  *)
(* product table.                                                          *)
(*                                                                         *)
(* Python values carry their type: None, PyInt, PyText, Decimal, Datetime, *)
(* PyFloat.  A row is a tuple of such cells; Python's 0-based row[i] is    *)
(* Col(row, i).                                                            *)
(***************************************************************************)
EXTENDS Integers, Sequences, FiniteSets, TLC

VARIABLES
    committed,   \* rows every reader of the database sees
    pending,     \* rows inserted by the connection's open transaction
    txn,         \* the connection's transaction status
    cursor,      \* the shared cursor's result set
    products,    \* the products table (never written by the handlers)
    fkEnforced,  \* whether the schema declares the orders foreign keys
    custSeq,     \* last value of the customers id sequence
    ordSeq,      \* last value of the orders id sequence
    clock,       \* datetime.now()
    concurrent,  \* whether the dispatcher lets calls overlap
    pc,          \* each worker's position in its handler
    req,         \* each worker's current request
    loc,         \* each worker's local variables
    outcome,     \* how each worker's call ended
    met,         \* what each worker's call ran into
    acked,       \* mappings returned by successful insert_customer_into_db calls
    hist         \* whether a get_customers call has failed on a storage error, and
                 \* the ids generated for insert_customer_into_db calls that failed

vars == <<committed, pending, txn, cursor, products, fkEnforced, custSeq, ordSeq,
          clock, concurrent, pc, req, loc, outcome, met, acked, hist>>

dbVars == <<committed, pending, txn, cursor, custSeq, ordSeq>>

-----------------------------------------------------------------------------
(* Bounds *)

MaxCustomers == 2

MaxOrders == 1

MaxProducts == 2

Workers == {1, 2}

-----------------------------------------------------------------------------
(* Python and SQL values *)

None == [k |-> "none"]

PyInt(n) == [k |-> "int", v |-> n]

PyText(s) == [k |-> "text", v |-> s]

Decimal(n) == [k |-> "decimal", v |-> n]

Datetime(t) == [k |-> "datetime", v |-> t]

PyFloat(n) == [k |-> "float", v |-> n]

\* row[i], 0-based as in the source
Col(row, i) == row[i + 1]

\* bool(x)
Truthy(x) ==
    CASE x.k = "none" -> FALSE
      [] x.k \in {"int", "decimal", "float"} -> x.v # 0
      [] x.k = "text" -> x.v # ""
      [] OTHER -> TRUE

\* str(x), as an f-string renders it
PyStr(x) ==
    CASE x.k = "none" -> "None"
      [] x.k = "text" -> x.v
      [] x.k = "datetime" -> "2024-01-01 00:00:0" \o ToString(x.v)
      [] OTHER -> ToString(x.v)

\* float(x) raises for a datetime and for text that is no number
FloatRaises(x) == x.k \in {"datetime", "text", "none"}

FloatOf(x) == PyFloat(x.v)

\* x.isoformat() exists on a datetime only
IsoformatRaises(x) == x.k # "datetime"

Isoformat(x) == PyText("2024-01-01T00:00:0" \o ToString(x.v))

-----------------------------------------------------------------------------
(* Requests *)

CustomerKeys ==
    {"first_name", "last_name", "address", "city", "country", "phone_number", "email"}

Ana ==
    [first_name |-> "Ana", last_name |-> "Diaz", address |-> "1 Main",
     city |-> "Lisbon", country |-> "PT", phone_number |-> "555",
     email |-> "ana@x.com"]

\* a payload without the email key
NoEmail ==
    [first_name |-> "Eve", last_name |-> "Roe", address |-> "3 Main",
     city |-> "Faro", country |-> "PT", phone_number |-> "557"]

Payloads == {Ana, NoEmail}

\* ids a caller may pass to place_order: each names a customer once the
\* sequence has handed it out and its insert is committed, and none before
CustomerIds == 1 .. MaxCustomers

Idle == [op |-> "none"]

NoOutcome == [kind |-> "none"]

Returned(type, value) == [kind |-> "returned", type |-> type, value |-> value]

\* raise RuntimeError(msg)
Raised(msg) == [kind |-> "raised", msg |-> msg]

\* an exception no except clause of the handler catches
Unhandled(exc) == [kind |-> "unhandled", exc |-> exc]

NoRow == <<>>

NoLocals == [id |-> None, row |-> NoRow, exc |-> "", excKind |-> ""]

\* what a call ran into: a fault of the storage, a statement the schema
\* rejected, an exception that is no psycopg2.Error (and whether it was a failure
\* of building the response that no value of the row explains), another call in
\* flight; the id its INSERT generated (0: none); whether it rolled back
NothingMet ==
    [fault |-> FALSE, rejected |-> FALSE, unexpected |-> FALSE, formatting |-> FALSE,
     overlapped |-> FALSE, inserted |-> 0, rolledBack |-> FALSE]

-----------------------------------------------------------------------------
(* The connection and its cursor *)

NoRows == [customers |-> <<>>, orders |-> <<>>]

\* what a statement run on the connection sees
Visible(table) == committed[table] \o pending[table]

NoResult == [has |-> FALSE, rows |-> <<>>]

ResultSet(rows) == [has |-> TRUE, rows |-> rows]

\* psycopg2.Error text of cursor.execute, "" when it succeeds: a statement in an
\* aborted transaction fails, and so does one the server or the network fails
ExecuteError(fault) ==
    IF txn = "inerror" THEN "current transaction is aborted"
    ELSE IF fault THEN "server error"
    ELSE ""

\* cursor.execute(...) raised
ExecuteFailed(fault) ==
    /\ txn' = IF txn = "inerror" \/ fault THEN "inerror" ELSE txn
    /\ cursor' = NoResult
    /\ UNCHANGED <<committed, pending, custSeq, ordSeq>>

\* cursor.fetchone() / fetchall() without a result set raises ProgrammingError
FetchError == IF cursor.has THEN "" ELSE "no results to fetch"

\* cursor.fetchone(): the next row or None
FetchoneRow == IF cursor.rows = <<>> THEN NoRow ELSE Head(cursor.rows)

FetchoneRest == IF cursor.rows = <<>> THEN <<>> ELSE Tail(cursor.rows)

\* conn.rollback() called where conn.commit() was meant
CommitAsRollback ==
    /\ pending' = NoRows
    /\ txn' = "idle"
    /\ UNCHANGED committed

\* conn.commit(): the open transaction's rows become visible to every reader;
\* the server answers COMMIT in an aborted transaction with a rollback
Commit ==
    /\ committed' = IF txn = "inerror" THEN committed
                    ELSE [t \in DOMAIN committed |-> committed[t] \o pending[t]]
    /\ pending' = NoRows
    /\ txn' = "idle"

\* conn.rollback()
Rollback ==
    /\ pending' = NoRows
    /\ txn' = "idle"
    /\ UNCHANGED committed

-----------------------------------------------------------------------------
(* The dispatcher *)

InFlight(p) == pc[p] \notin {"idle", "done"}

\* the worker a one-call-at-a-time dispatcher runs every handler on
MainWorker == CHOOSE w \in Workers : \A v \in Workers : w <= v

\* a call may start on an idle worker; one call at a time unless concurrent
CanStart(p) ==
    /\ pc[p] = "idle"
    /\ concurrent \/ p = MainWorker

\* the handler is entered and runs to `next`; `err` is the psycopg2.Error its
\* first statement raised ("" when none) and `first` what the call met there
Start(p, request, next, err, first) ==
    /\ req' = [req EXCEPT ![p] = request]
    /\ pc' = [pc EXCEPT ![p] = next]
    /\ loc' = [loc EXCEPT ![p] =
                 [NoLocals EXCEPT !.exc = err,
                                  !.excKind = IF err = "" THEN "" ELSE "storage"]]
    /\ met' = [q \in Workers |->
                 IF q = p
                 THEN [first EXCEPT
                         !.overlapped = \E r \in Workers \ {p} : InFlight(r)]
                 ELSE IF InFlight(q) THEN [met[q] EXCEPT !.overlapped = TRUE]
                 ELSE met[q]]

\* the call ends: its return value or exception goes to the dispatcher
Finish(p, result) ==
    /\ pc' = [pc EXCEPT ![p] = "done"]
    /\ outcome' = [outcome EXCEPT ![p] = result]

\* an exception the handler's except clause catches: control moves there
Catch(p, kind, text, handler) ==
    /\ pc' = [pc EXCEPT ![p] = handler]
    /\ loc' = [loc EXCEPT ![p].exc = text, ![p].excKind = kind]
    /\ UNCHANGED outcome

Note(p, what) == met' = [met EXCEPT ![p][what] = TRUE]

envVars == <<products, fkEnforced, concurrent>>

\* the dispatcher serializes the result and the worker is free again
Deliver(p) ==
    /\ pc[p] = "done"
    /\ pc' = [pc EXCEPT ![p] = "idle"]
    /\ req' = [req EXCEPT ![p] = Idle]
    /\ loc' = [loc EXCEPT ![p] = NoLocals]
    /\ outcome' = [outcome EXCEPT ![p] = NoOutcome]
    /\ met' = [met EXCEPT ![p] = NothingMet]
    /\ UNCHANGED <<dbVars, products, fkEnforced, clock, concurrent, acked, hist>>

-----------------------------------------------------------------------------
(* get_customers *)

HasColumns(row, n) == Len(row) >= n

CustomerMapping(row) ==
    [customer_id |-> Col(row, 0), first_name |-> Col(row, 1),
     last_name |-> Col(row, 2), address |-> Col(row, 3), city |-> Col(row, 4),
     country |-> Col(row, 5), phone_number |-> Col(row, 6), email |-> Col(row, 7)]

\* db.cursor.execute("SELECT * FROM customers")
GcExecute(p) ==
    /\ CanStart(p)
    /\ \E fault \in BOOLEAN :
         LET err == ExecuteError(fault) IN
         /\ Start(p, [op |-> "get_customers"],
                  IF err = "" THEN "gc_fetchall" ELSE "gc_except",
                  err, [NothingMet EXCEPT !.fault = fault /\ txn # "inerror"])
         /\ IF err = ""
            THEN /\ cursor' = ResultSet(Visible("customers"))
                 /\ txn' = "intrans"
                 /\ UNCHANGED <<committed, pending, custSeq, ordSeq>>
            ELSE ExecuteFailed(fault)
    /\ UNCHANGED <<outcome, envVars, clock, acked, hist>>

\* results = db.cursor.fetchall(), the loop over results, return customers
GcFetchall(p) ==
    /\ pc[p] = "gc_fetchall"
    /\ IF FetchError # ""
       THEN /\ Catch(p, "storage", FetchError, "gc_except")
            /\ UNCHANGED <<cursor, met>>
       ELSE \E unexpected \in BOOLEAN :
            LET results == cursor.rows
                exc == IF results = <<>> THEN ""
                       ELSE IF \E i \in 1 .. Len(results) : ~HasColumns(results[i], 8)
                       THEN "IndexError"
                       ELSE IF unexpected THEN "Exception"
                       ELSE ""
            IN
            /\ cursor' = [cursor EXCEPT !.rows = <<>>]
            /\ Finish(p, IF exc = ""
                         THEN Returned("list", [i \in 1 .. Len(results) |->
                                                  CustomerMapping(results[i])])
                         ELSE Unhandled(exc))
            /\ met' = [met EXCEPT ![p].unexpected = exc # "",
                                  ![p].formatting = exc = "Exception"]
            /\ UNCHANGED loc
    /\ UNCHANGED <<committed, pending, txn, custSeq, ordSeq, req, envVars,
                   clock, acked, hist>>

\* the except clause without its db.conn.rollback()
GcExceptNoRollback(p) ==
    /\ pc[p] = "gc_except"
    /\ Finish(p, Raised("Failed to retrieve customers due to database error: "
                        \o loc[p].exc))
    /\ hist' = [hist EXCEPT !.gcFailed = TRUE]
    /\ UNCHANGED <<dbVars, req, loc, met, envVars, clock, acked>>

\* except psycopg2.Error: db.conn.rollback(); raise RuntimeError(...)
GcExcept(p) ==
    /\ pc[p] = "gc_except"
    /\ Rollback
    /\ Finish(p, Raised("Failed to retrieve customers due to database error: "
                        \o loc[p].exc))
    /\ Note(p, "rolledBack")
    /\ hist' = [hist EXCEPT !.gcFailed = TRUE]
    /\ UNCHANGED <<cursor, custSeq, ordSeq, req, loc, envVars, clock, acked>>

-----------------------------------------------------------------------------
(* insert_customer_into_db *)

\* the INSERT with first_name and last_name bound in the wrong order
CustomerRowSwapped(id, d) ==
    <<PyInt(id), PyText(d.last_name), PyText(d.first_name), PyText(d.address),
      PyText(d.city), PyText(d.country), PyText(d.phone_number), PyText(d.email)>>

CustomerRow(id, d) ==
    <<PyInt(id), PyText(d.first_name), PyText(d.last_name), PyText(d.address),
      PyText(d.city), PyText(d.country), PyText(d.phone_number), PyText(d.email)>>

\* db.cursor.execute("INSERT INTO customers ... RETURNING customer_id", (...)):
\* the tuple of customer_data[...] lookups is built before execute is called
IcInsert(p) ==
    /\ CanStart(p)
    /\ custSeq < MaxCustomers
    /\ \E customer_data \in Payloads, fault \in BOOLEAN :
         LET missing == ~(CustomerKeys \subseteq DOMAIN customer_data)
             err == IF missing THEN "" ELSE ExecuteError(fault)
         IN
         /\ Start(p, [op |-> "insert_customer_into_db", customer_data |-> customer_data],
                  IF missing THEN "done"
                  ELSE IF err = "" THEN "ic_fetch_id" ELSE "ic_except",
                  err, [NothingMet EXCEPT
                          !.fault = ~missing /\ fault /\ txn # "inerror",
                          !.unexpected = missing,
                          !.inserted = IF ~missing /\ err = "" THEN custSeq + 1 ELSE 0])
         /\ outcome' = [outcome EXCEPT ![p] =
                          IF missing THEN Unhandled("KeyError") ELSE NoOutcome]
         /\ IF missing
            THEN UNCHANGED dbVars
            ELSE IF err = ""
            THEN /\ custSeq' = custSeq + 1
                 /\ pending' = [pending EXCEPT !.customers =
                                  Append(@, CustomerRow(custSeq + 1, customer_data))]
                 /\ cursor' = ResultSet(<< <<PyInt(custSeq + 1)>> >>)
                 /\ txn' = "intrans"
                 /\ UNCHANGED <<committed, ordSeq>>
            ELSE ExecuteFailed(fault)
    /\ UNCHANGED <<envVars, clock, acked, hist>>

\* customer_id = db.cursor.fetchone()[0]
IcFetchId(p) ==
    /\ pc[p] = "ic_fetch_id"
    /\ IF FetchError # ""
       THEN /\ Catch(p, "storage", FetchError, "ic_except")
            /\ UNCHANGED <<cursor, met>>
       ELSE /\ cursor' = [cursor EXCEPT !.rows = FetchoneRest]
            /\ IF FetchoneRow = NoRow
               THEN /\ Finish(p, Unhandled("TypeError"))
                    /\ Note(p, "unexpected")
                    /\ UNCHANGED loc
               ELSE /\ loc' = [loc EXCEPT ![p].id = Col(FetchoneRow, 0)]
                    /\ pc' = [pc EXCEPT ![p] = "ic_select"]
                    /\ UNCHANGED <<outcome, met>>
    /\ UNCHANGED <<committed, pending, txn, custSeq, ordSeq, req, envVars, clock,
                   acked, hist>>

\* db.cursor.execute("SELECT * FROM customers WHERE customer_id = %s", (customer_id,))
IcSelect(p) ==
    /\ pc[p] = "ic_select"
    /\ \E fault \in BOOLEAN :
         LET err == ExecuteError(fault) IN
         IF err = ""
         THEN /\ cursor' = ResultSet(SelectSeq(Visible("customers"),
                                               LAMBDA r : Col(r, 0) = loc[p].id))
              /\ txn' = "intrans"
              /\ pc' = [pc EXCEPT ![p] = "ic_fetch"]
              /\ UNCHANGED <<committed, pending, custSeq, ordSeq, loc, met, outcome>>
         ELSE /\ ExecuteFailed(fault)
              /\ Catch(p, "storage", err, "ic_except")
              /\ met' = [met EXCEPT ![p].fault = @ \/ (fault /\ txn # "inerror")]
    /\ UNCHANGED <<req, envVars, clock, acked, hist>>

\* result = db.cursor.fetchone()
IcFetch(p) ==
    /\ pc[p] = "ic_fetch"
    /\ IF FetchError # ""
       THEN /\ Catch(p, "storage", FetchError, "ic_except")
            /\ UNCHANGED cursor
       ELSE /\ cursor' = [cursor EXCEPT !.rows = FetchoneRest]
            /\ loc' = [loc EXCEPT ![p].row = FetchoneRow]
            /\ pc' = [pc EXCEPT ![p] = "ic_commit"]
            /\ UNCHANGED outcome
    /\ UNCHANGED <<committed, pending, txn, custSeq, ordSeq, req, met, envVars,
                   clock, acked, hist>>

\* the response built before db.conn.commit() instead of after it
IcCommitAfterResponse(p) ==
    /\ pc[p] = "ic_commit"
    /\ \E fault \in BOOLEAN, unexpected \in BOOLEAN :
         LET result == loc[p].row
             exc == IF result = NoRow THEN "TypeError"
                    ELSE IF ~HasColumns(result, 8) THEN "IndexError"
                    ELSE IF unexpected THEN "Exception"
                    ELSE ""
         IN
         IF exc # ""
         THEN /\ Finish(p, Unhandled(exc))
              /\ met' = [met EXCEPT ![p].unexpected = TRUE,
                                    ![p].formatting = exc = "Exception"]
              /\ UNCHANGED <<committed, pending, txn, acked, loc>>
         ELSE IF fault
         THEN /\ txn' = "inerror"
              /\ Catch(p, "storage", "server error", "ic_except")
              /\ Note(p, "fault")
              /\ UNCHANGED <<committed, pending, acked>>
         ELSE /\ Commit
              /\ Finish(p, Returned("dict", CustomerMapping(result)))
              /\ acked' = acked \cup {CustomerMapping(result)}
              /\ UNCHANGED <<loc, met>>
    /\ UNCHANGED <<cursor, custSeq, ordSeq, req, envVars, clock, hist>>

\* db.conn.commit(), then new_customer = {...}, logger.info(...), return
IcCommit(p) ==
    /\ pc[p] = "ic_commit"
    /\ \E fault \in BOOLEAN, unexpected \in BOOLEAN :
         IF fault
         THEN /\ txn' = "inerror"
              /\ Catch(p, "storage", "server error", "ic_except")
              /\ Note(p, "fault")
              /\ UNCHANGED <<committed, pending, acked>>
         ELSE LET result == loc[p].row
                  exc == IF result = NoRow THEN "TypeError"
                         ELSE IF ~HasColumns(result, 8) THEN "IndexError"
                         ELSE IF unexpected THEN "Exception"
                         ELSE ""
              IN
              /\ Commit
              /\ Finish(p, IF exc = "" THEN Returned("dict", CustomerMapping(result))
                           ELSE Unhandled(exc))
              /\ acked' = IF exc = "" THEN acked \cup {CustomerMapping(result)}
                          ELSE acked
              /\ met' = [met EXCEPT ![p].unexpected = exc # "",
                                    ![p].formatting = exc = "Exception"]
              /\ UNCHANGED loc
    /\ UNCHANGED <<cursor, custSeq, ordSeq, req, envVars, clock, hist>>

\* the except clause without its db.conn.rollback()
IcExceptNoRollback(p) ==
    /\ pc[p] = "ic_except"
    /\ Finish(p, Raised("Failed to insert customer into database due to database error: "
                        \o loc[p].exc))
    /\ hist' = [hist EXCEPT !.failedInserts =
                   IF met[p].inserted # 0 THEN @ \cup {met[p].inserted} ELSE @]
    /\ UNCHANGED <<dbVars, req, loc, met, envVars, clock, acked>>

\* except psycopg2.Error: db.conn.rollback(); raise RuntimeError(...)
IcExcept(p) ==
    /\ pc[p] = "ic_except"
    /\ Rollback
    /\ Finish(p, Raised("Failed to insert customer into database due to database error: "
                        \o loc[p].exc))
    /\ Note(p, "rolledBack")
    /\ hist' = [hist EXCEPT !.failedInserts =
                   IF met[p].inserted # 0 THEN @ \cup {met[p].inserted} ELSE @]
    /\ UNCHANGED <<cursor, custSeq, ordSeq, req, loc, envVars, clock, acked>>

-----------------------------------------------------------------------------
(* get_products *)

\* the database's collation order of the text values a products row may hold
TextOrder == <<"Gizmo", "Widget", "tools", "toys">>

Collate(s) == CHOOSE i \in 1 .. Len(TextOrder) : TextOrder[i] = s

\* ORDER BY category alone
OrderedPairByCategory(a, b) == Collate(Col(a, 3).v) <= Collate(Col(b, 3).v)

\* row a sorts no later than row b under ORDER BY category, product_name
OrderedPair(a, b) ==
    \/ Collate(Col(a, 3).v) < Collate(Col(b, 3).v)
    \/ /\ Col(a, 3) = Col(b, 3)
       /\ Collate(Col(a, 1).v) <= Collate(Col(b, 1).v)

\* the orders in which the database may return `rows` under that ORDER BY
\* (rows with equal keys come in any order)
OrderBy(rows) ==
    LET n == Len(rows)
        perms == {f \in [1 .. n -> 1 .. n] : \A i, j \in 1 .. n : i # j => f[i] # f[j]}
    IN {[i \in 1 .. n |-> rows[f[i]]] : f \in
          {g \in perms : \A i \in 1 .. n - 1 : OrderedPair(rows[g[i]], rows[g[i + 1]])}}

\* float(product[2]) if product[2] else 0.0
PriceOf(cell) == IF Truthy(cell) THEN FloatOf(cell) ELSE PyFloat(0)

PriceRaises(cell) == Truthy(cell) /\ FloatRaises(cell)

ProductMapping(row) ==
    [product_id |-> Col(row, 0), name |-> Col(row, 1),
     price |-> PriceOf(Col(row, 2)), category |-> Col(row, 3)]

\* db.cursor.execute("SELECT product_id, product_name, price, category
\*                    FROM products ORDER BY category, product_name")
GpExecute(p) ==
    /\ CanStart(p)
    /\ \E fault \in BOOLEAN :
         LET err == ExecuteError(fault) IN
         /\ Start(p, [op |-> "get_products"],
                  IF err = "" THEN "gp_fetchall" ELSE "gp_except",
                  err, [NothingMet EXCEPT !.fault = fault /\ txn # "inerror"])
         /\ IF err = ""
            THEN /\ \E rows \in OrderBy(products) : cursor' = ResultSet(rows)
                 /\ txn' = "intrans"
                 /\ UNCHANGED <<committed, pending, custSeq, ordSeq>>
            ELSE ExecuteFailed(fault)
    /\ UNCHANGED <<outcome, envVars, clock, acked, hist>>

\* products = db.cursor.fetchall(), `if not products: return []`, the loop,
\* return product_list; except Exception: raise RuntimeError(...) (no rollback)
GpFetchall(p) ==
    /\ pc[p] = "gp_fetchall"
    /\ IF FetchError # ""
       THEN /\ Catch(p, "storage", FetchError, "gp_except")
            /\ UNCHANGED <<cursor, met>>
       ELSE \E unexpected \in BOOLEAN :
            LET rows == cursor.rows
                exc == IF rows = <<>> THEN ""
                       ELSE IF \E i \in 1 .. Len(rows) : ~HasColumns(rows[i], 4)
                       THEN "IndexError"
                       ELSE IF \E i \in 1 .. Len(rows) : PriceRaises(Col(rows[i], 2))
                       THEN "ValueError"
                       ELSE IF unexpected THEN "Exception"
                       ELSE ""
            IN
            /\ cursor' = [cursor EXCEPT !.rows = <<>>]
            /\ Finish(p, IF exc = ""
                         THEN Returned("list", [i \in 1 .. Len(rows) |->
                                                  ProductMapping(rows[i])])
                         ELSE Raised("Failed to retrieve products: " \o exc))
            /\ met' = [met EXCEPT ![p].unexpected = exc # "",
                                  ![p].formatting = exc = "Exception"]
            /\ UNCHANGED loc
    /\ UNCHANGED <<committed, pending, txn, custSeq, ordSeq, req, envVars, clock,
                   acked, hist>>

\* except psycopg2.Error: db.conn.rollback(); raise RuntimeError(...)
GpExcept(p) ==
    /\ pc[p] = "gp_except"
    /\ Rollback
    /\ Finish(p, Raised("Failed to retrieve products due to database error: "
                        \o loc[p].exc))
    /\ Note(p, "rolledBack")
    /\ UNCHANGED <<cursor, custSeq, ordSeq, req, loc, envVars, clock, acked, hist>>

-----------------------------------------------------------------------------
(* place_order *)

HasId(rows, id) == \E i \in 1 .. Len(rows) : Col(rows[i], 0) = PyInt(id)

\* the orders foreign keys, when the schema declares them
ForeignKeysHold(customer_id, product_id) ==
    HasId(Visible("customers"), customer_id) /\ HasId(products, product_id)

\* one row of: orders o LEFT JOIN customers c ON o.customer_id = c.customer_id
\*                      LEFT JOIN products p ON o.product_id = p.product_id
JoinRow(o) ==
    LET cs == SelectSeq(Visible("customers"), LAMBDA c : Col(c, 0) = Col(o, 1))
        ps == SelectSeq(products, LAMBDA r : Col(r, 0) = Col(o, 2))
        c == IF cs = <<>> THEN [i \in 1 .. 8 |-> None] ELSE cs[1]
        r == IF ps = <<>> THEN [i \in 1 .. 4 |-> None] ELSE ps[1]
    IN <<Col(o, 0), Col(o, 3), Col(c, 1), Col(c, 2), Col(c, 7),
         Col(r, 1), Col(r, 2), Col(r, 3)>>

\* the same query with JOIN in place of LEFT JOIN: an order whose customer or
\* product is missing yields no row
OrderDetailsInnerJoin(order_id) ==
    LET os == SelectSeq(Visible("orders"),
                        LAMBDA o : /\ Col(o, 0) = order_id
                                   /\ \E i \in 1 .. Len(Visible("customers")) :
                                        Col(Visible("customers")[i], 0) = Col(o, 1)
                                   /\ \E i \in 1 .. Len(products) :
                                        Col(products[i], 0) = Col(o, 2))
    IN [i \in 1 .. Len(os) |-> JoinRow(os[i])]

OrderDetails(order_id) ==
    LET os == SelectSeq(Visible("orders"), LAMBDA o : Col(o, 0) = order_id)
    IN [i \in 1 .. Len(os) |-> JoinRow(os[i])]

\* the exception that building order_response raises, "" when none
OrderResponseError(order_details) ==
    IF order_details = NoRow THEN "TypeError"
    ELSE IF ~HasColumns(order_details, 8) THEN "IndexError"
    ELSE IF Truthy(Col(order_details, 1)) /\ IsoformatRaises(Col(order_details, 1))
    THEN "AttributeError"
    ELSE IF PriceRaises(Col(order_details, 6)) THEN "ValueError"
    ELSE ""

\* customer_name taken from the email column
OrderResponseWrongColumn(order_details) ==
    [order_id |-> Col(order_details, 0),
     order_date |-> IF Truthy(Col(order_details, 1))
                    THEN Isoformat(Col(order_details, 1)) ELSE None,
     customer_name |-> PyText(PyStr(Col(order_details, 2)) \o " "
                              \o PyStr(Col(order_details, 4))),
     customer_email |-> Col(order_details, 4),
     product_name |-> Col(order_details, 5),
     price |-> PriceOf(Col(order_details, 6)),
     category |-> Col(order_details, 7)]

OrderResponse(order_details) ==
    [order_id |-> Col(order_details, 0),
     order_date |-> IF Truthy(Col(order_details, 1))
                    THEN Isoformat(Col(order_details, 1)) ELSE None,
     customer_name |-> PyText(PyStr(Col(order_details, 2)) \o " "
                              \o PyStr(Col(order_details, 3))),
     customer_email |-> Col(order_details, 4),
     product_name |-> Col(order_details, 5),
     price |-> PriceOf(Col(order_details, 6)),
     category |-> Col(order_details, 7)]

\* order_date = datetime.now();
\* db.cursor.execute("INSERT INTO orders ... RETURNING order_id", (...))
PoInsert(p) ==
    /\ CanStart(p)
    /\ clock < MaxOrders
    /\ clock' = clock + 1
    /\ \E customer_id \in CustomerIds, product_id \in 1 .. (Len(products) + 1),
          fault \in BOOLEAN :
         LET rejected == /\ ExecuteError(fault) = ""
                         /\ fkEnforced
                         /\ ~ForeignKeysHold(customer_id, product_id)
             err == IF rejected THEN "foreign key violation" ELSE ExecuteError(fault)
         IN
         /\ Start(p, [op |-> "place_order", customer_id |-> customer_id,
                      product_id |-> product_id, order_date |-> Datetime(clock + 1)],
                  IF err = "" THEN "po_fetch_id" ELSE "po_except",
                  err, [NothingMet EXCEPT !.fault = fault /\ txn # "inerror",
                                          !.rejected = rejected])
         /\ IF err = ""
            THEN /\ ordSeq' = ordSeq + 1
                 /\ pending' = [pending EXCEPT !.orders =
                                  Append(@, <<PyInt(ordSeq + 1), PyInt(customer_id),
                                              PyInt(product_id), Datetime(clock + 1)>>)]
                 /\ cursor' = ResultSet(<< <<PyInt(ordSeq + 1)>> >>)
                 /\ txn' = "intrans"
                 /\ UNCHANGED <<committed, custSeq>>
            ELSE IF rejected
            THEN /\ ordSeq' = ordSeq + 1
                 /\ txn' = "inerror"
                 /\ cursor' = NoResult
                 /\ UNCHANGED <<committed, pending, custSeq>>
            ELSE ExecuteFailed(fault)
    /\ UNCHANGED <<outcome, envVars, acked, hist>>

\* order_id = db.cursor.fetchone()[0]
PoFetchId(p) ==
    /\ pc[p] = "po_fetch_id"
    /\ IF FetchError # ""
       THEN /\ Catch(p, "storage", FetchError, "po_except")
            /\ UNCHANGED <<cursor, met>>
       ELSE /\ cursor' = [cursor EXCEPT !.rows = FetchoneRest]
            /\ IF FetchoneRow = NoRow
               THEN /\ Catch(p, "unexpected", "TypeError", "po_except")
                    /\ Note(p, "unexpected")
               ELSE /\ loc' = [loc EXCEPT ![p].id = Col(FetchoneRow, 0)]
                    /\ pc' = [pc EXCEPT ![p] = "po_select"]
                    /\ UNCHANGED <<outcome, met>>
    /\ UNCHANGED <<committed, pending, txn, custSeq, ordSeq, req, envVars, clock,
                   acked, hist>>

\* db.cursor.execute(query, (order_id,))
PoSelect(p) ==
    /\ pc[p] = "po_select"
    /\ \E fault \in BOOLEAN :
         LET err == ExecuteError(fault) IN
         IF err = ""
         THEN /\ cursor' = ResultSet(OrderDetails(loc[p].id))
              /\ txn' = "intrans"
              /\ pc' = [pc EXCEPT ![p] = "po_fetch"]
              /\ UNCHANGED <<committed, pending, custSeq, ordSeq, loc, met, outcome>>
         ELSE /\ ExecuteFailed(fault)
              /\ Catch(p, "storage", err, "po_except")
              /\ met' = [met EXCEPT ![p].fault = @ \/ (fault /\ txn # "inerror")]
    /\ UNCHANGED <<req, envVars, clock, acked, hist>>

\* order_details = db.cursor.fetchone()
PoFetch(p) ==
    /\ pc[p] = "po_fetch"
    /\ IF FetchError # ""
       THEN /\ Catch(p, "storage", FetchError, "po_except")
            /\ UNCHANGED cursor
       ELSE /\ cursor' = [cursor EXCEPT !.rows = FetchoneRest]
            /\ loc' = [loc EXCEPT ![p].row = FetchoneRow]
            /\ pc' = [pc EXCEPT ![p] = "po_commit"]
            /\ UNCHANGED outcome
    /\ UNCHANGED <<committed, pending, txn, custSeq, ordSeq, req, met, envVars,
                   clock, acked, hist>>

\* db.conn.commit(), then order_response = {...}, logger.info(...), return
PoCommit(p) ==
    /\ pc[p] = "po_commit"
    /\ \E fault \in BOOLEAN, unexpected \in BOOLEAN :
         IF fault
         THEN /\ txn' = "inerror"
              /\ Catch(p, "storage", "server error", "po_except")
              /\ Note(p, "fault")
              /\ UNCHANGED <<committed, pending>>
         ELSE LET order_details == loc[p].row
                  exc == IF OrderResponseError(order_details) # ""
                         THEN OrderResponseError(order_details)
                         ELSE IF unexpected THEN "Exception"
                         ELSE ""
              IN
              /\ Commit
              /\ IF exc = ""
                 THEN /\ Finish(p, Returned("dict", OrderResponse(order_details)))
                      /\ UNCHANGED <<loc, met>>
                 ELSE /\ Catch(p, "unexpected", exc, "po_except")
                      /\ met' = [met EXCEPT ![p].unexpected = TRUE,
                                            ![p].formatting = exc = "Exception"]
    /\ UNCHANGED <<cursor, custSeq, ordSeq, req, envVars, clock, acked, hist>>

\* the except clauses raising RuntimeError as the other handlers do
PoExceptRaises(p) ==
    /\ pc[p] = "po_except"
    /\ Rollback
    /\ Finish(p, Raised("Failed to place order due to database error: " \o loc[p].exc))
    /\ Note(p, "rolledBack")
    /\ UNCHANGED <<cursor, custSeq, ordSeq, req, loc, envVars, clock, acked, hist>>

\* except psycopg2.Error: rollback, return "Failed to place order due to
\* database error: ..."; except Exception: rollback, return "Failed to place order: ..."
PoExcept(p) ==
    /\ pc[p] = "po_except"
    /\ Rollback
    /\ Finish(p, Returned("str",
                          IF loc[p].excKind = "storage"
                          THEN "Failed to place order due to database error: " \o loc[p].exc
                          ELSE "Failed to place order: " \o loc[p].exc))
    /\ Note(p, "rolledBack")
    /\ UNCHANGED <<cursor, custSeq, ordSeq, req, loc, envVars, clock, acked, hist>>

-----------------------------------------------------------------------------
(* Specifications *)

\* the products of the running example: a priced one and one whose price is NULL
SeedProducts ==
    << <<PyInt(1), PyText("Widget"), Decimal(1250), PyText("tools")>>,
       <<PyInt(2), PyText("Gizmo"), None, PyText("toys")>> >>

ProductNames == {"Gizmo", "Widget"}

ProductCategories == {"tools", "toys"}

Prices == {None, Decimal(0), Decimal(1250)}

\* every products table of at most MaxProducts rows, ids in storage order
ProductTables ==
    UNION {{[i \in 1 .. n |-> <<PyInt(i), PyText(f[i][1]), f[i][2], PyText(f[i][3])>>] :
              f \in [1 .. n -> ProductNames \X Prices \X ProductCategories]} :
           n \in 0 .. MaxProducts}

InitCommon ==
    /\ committed = NoRows
    /\ pending = NoRows
    /\ txn = "idle"
    /\ cursor = NoResult
    /\ fkEnforced \in BOOLEAN
    /\ custSeq = 0
    /\ ordSeq = 0
    /\ clock = 0
    /\ pc = [p \in Workers |-> "idle"]
    /\ req = [p \in Workers |-> Idle]
    /\ loc = [p \in Workers |-> NoLocals]
    /\ outcome = [p \in Workers |-> NoOutcome]
    /\ met = [p \in Workers |-> NothingMet]
    /\ acked = {}
    /\ hist = [gcFailed |-> FALSE, failedInserts |-> {}]

Init == InitCommon /\ products = SeedProducts /\ concurrent = FALSE

InitConc == InitCommon /\ products = SeedProducts /\ concurrent = TRUE

InitProducts == InitCommon /\ products \in ProductTables /\ concurrent = FALSE

GetCustomers(p) == GcExecute(p) \/ GcFetchall(p) \/ GcExcept(p)

InsertCustomer(p) ==
    \/ IcInsert(p) \/ IcFetchId(p) \/ IcSelect(p)
    \/ IcFetch(p) \/ IcCommit(p) \/ IcExcept(p)

GetProducts(p) == GpExecute(p) \/ GpFetchall(p) \/ GpExcept(p)

PlaceOrder(p) ==
    \/ PoInsert(p) \/ PoFetchId(p) \/ PoSelect(p)
    \/ PoFetch(p) \/ PoCommit(p) \/ PoExcept(p)

Next ==
    \E p \in Workers :
      GetCustomers(p) \/ InsertCustomer(p) \/ GetProducts(p) \/ PlaceOrder(p) \/ Deliver(p)

NextConc == \E p \in Workers : GetCustomers(p) \/ InsertCustomer(p) \/ Deliver(p)

NextProducts == \E p \in Workers : GetProducts(p) \/ Deliver(p)

Spec == Init /\ [][Next]_vars

SpecConc == InitConc /\ [][NextConc]_vars

SpecProducts == InitProducts /\ [][NextProducts]_vars

-----------------------------------------------------------------------------
(* Properties *)

Done(p, op) == pc[p] = "done" /\ req[p].op = op

Mappings(rows) == {CustomerMapping(rows[i]) : i \in 1 .. Len(rows)}

Elements(seq) == {seq[i] : i \in 1 .. Len(seq)}

\* the orders rows a place_order call created: its order_date is its own
OrdersOf(p, rows) == {i \in 1 .. Len(rows) : Col(rows[i], 3) = req[p].order_date}

\* C1: an insert_customer_into_db call given all seven keys that meets no storage
\* error returns a mapping with the id the sequence generated and the seven
\* fields of its input, its row is committed, and every get_customers call that
\* returns after it lists every mapping such calls have returned.
C1_InsertThenList ==
    \A p \in Workers :
      /\ ( /\ Done(p, "insert_customer_into_db")
           /\ CustomerKeys \subseteq DOMAIN req[p].customer_data
           /\ ~met[p].fault /\ ~met[p].formatting )
         => /\ outcome[p].kind = "returned"
            /\ outcome[p].value.customer_id = PyInt(met[p].inserted)
            /\ met[p].inserted = custSeq
            /\ \A k \in CustomerKeys :
                 outcome[p].value[k] = PyText(req[p].customer_data[k])
            /\ Cardinality({i \in 1 .. Len(committed.customers) :
                              Col(committed.customers[i], 0) = PyInt(met[p].inserted)}) = 1
            /\ outcome[p].value \in Mappings(committed.customers)
            /\ outcome[p].value \in acked
      /\ ( Done(p, "get_customers") /\ outcome[p].kind = "returned" )
         => acked \subseteq Elements(outcome[p].value)

\* an insert was acknowledged, an order was placed, a second insert was
\* acknowledged, and get_customers then returned both customers
C1_Witness ==
    \E p \in Workers :
      /\ Done(p, "get_customers")
      /\ outcome[p].kind = "returned"
      /\ Cardinality(acked) = 2
      /\ Len(committed.orders) = 1
      /\ Col(committed.orders[1], 1) = PyInt(1)

\* C2: the row of an insert_customer_into_db call is in no reader's view before
\* the call's commit, and when a storage error strikes after the INSERT ran the
\* call rolls back: nothing is left pending, and the row is never committed,
\* by that call or by any later one.
C2_FailedInsertRolledBack ==
    /\ \A p \in Workers :
         /\ ( /\ req[p].op = "insert_customer_into_db"
              /\ pc[p] \in {"ic_fetch_id", "ic_select", "ic_fetch", "ic_commit", "ic_except"} )
            => ~HasId(committed.customers, met[p].inserted)
         /\ ( /\ Done(p, "insert_customer_into_db")
              /\ met[p].inserted # 0
              /\ outcome[p].kind # "returned" /\ ~met[p].formatting )
            => /\ met[p].rolledBack
               /\ outcome[p].kind = "raised"
               /\ pending = NoRows
               /\ txn = "idle"
               /\ met[p].inserted \in hist.failedInserts
    /\ \A id \in hist.failedInserts :
         ~HasId(committed.customers, id) /\ ~HasId(pending.customers, id)

\* an insert failed after its INSERT statement ran, and a later insert committed
C2_Witness ==
    /\ 1 \in hist.failedInserts
    /\ HasId(committed.customers, 2)

\* C3: a get_customers call that meets a storage error rolls back and raises
\* RuntimeError with the error's text, returning no list; and once that has
\* happened every call of any handler that meets no new error succeeds.
C3_ListFailureLeavesConnectionUsable ==
    \A p \in Workers :
      /\ ( Done(p, "get_customers") /\ met[p].fault )
         => /\ outcome[p] = Raised("Failed to retrieve customers due to database error: "
                                   \o "server error")
            /\ met[p].rolledBack
            /\ txn = "idle"
            /\ pending = NoRows
      /\ ( /\ hist.gcFailed
           /\ pc[p] = "done"
           /\ ~met[p].fault /\ ~met[p].rejected /\ ~met[p].formatting
           /\ req[p].op = "insert_customer_into_db"
                => CustomerKeys \subseteq DOMAIN req[p].customer_data )
         => /\ outcome[p].kind = "returned"
            /\ outcome[p].type = IF req[p].op \in {"get_customers", "get_products"}
                                 THEN "list" ELSE "dict"

\* after a failed get_customers, an insert and then an order went through
C3_Witness ==
    \E p \in Workers :
      /\ hist.gcFailed
      /\ Done(p, "place_order")
      /\ outcome[p].kind = "returned" /\ outcome[p].type = "dict"
      /\ Len(committed.customers) > 0

\* C4: place_order never raises: on a storage error and on any other exception
\* it rolls back and returns an error-message string; the other three handlers
\* on a storage error roll back and raise RuntimeError, returning nothing.
C4_ErrorSignalling ==
    \A p \in Workers :
      /\ Done(p, "place_order")
         => /\ outcome[p].kind = "returned"
            /\ (met[p].fault \/ met[p].rejected)
               => /\ outcome[p].type = "str"
                  /\ outcome[p].value \in
                       {"Failed to place order due to database error: " \o e :
                          e \in {"server error", "foreign key violation"}}
                  /\ met[p].rolledBack
            /\ met[p].unexpected
               => /\ outcome[p].type = "str"
                  /\ outcome[p].value = "Failed to place order: Exception"
                  /\ met[p].rolledBack
      /\ ( /\ pc[p] = "done"
           /\ req[p].op \in {"get_customers", "insert_customer_into_db", "get_products"}
           /\ met[p].fault )
         => /\ outcome[p].kind = "raised"
            /\ met[p].rolledBack
            /\ txn = "idle"
            /\ pending = NoRows

\* place_order met an exception that is no storage error and returned a string
C4_Witness ==
    \E p \in Workers :
      /\ Done(p, "place_order")
      /\ met[p].unexpected
      /\ outcome[p].kind = "returned" /\ outcome[p].type = "str"

\* the committed customer / the product an id names (the id must exist)
CustomerOf(id) ==
    committed.customers[CHOOSE i \in 1 .. Len(committed.customers) :
                          Col(committed.customers[i], 0) = PyInt(id)]

ProductOf(id) == products[CHOOSE i \in 1 .. Len(products) : Col(products[i], 0) = PyInt(id)]

\* the coercion the specification states for a stored price
StatedPrice(stored) ==
    IF stored = None \/ stored = Decimal(0) THEN PyFloat(0) ELSE PyFloat(stored.v)

\* C5: a place_order call whose customer and product exist and that meets no
\* error commits exactly one new orders row (customer_id, product_id, the
\* order_date the handler captured) and returns the generated order_id, that
\* date in ISO-8601 form, "<first_name> <last_name>" and the email of the
\* customer, and the name, price (as a float, 0.0 for NULL) and category of the
\* product.
C5_OrderOfExistingRows ==
    \A p \in Workers :
      ( /\ Done(p, "place_order")
        /\ HasId(committed.customers, req[p].customer_id)
        /\ HasId(products, req[p].product_id)
        /\ ~met[p].fault /\ ~met[p].formatting )
      => LET c == CustomerOf(req[p].customer_id)
             r == ProductOf(req[p].product_id)
             m == outcome[p].value
         IN
         /\ outcome[p].kind = "returned" /\ outcome[p].type = "dict"
         /\ pending = NoRows
         /\ Cardinality(OrdersOf(p, committed.orders)) = 1
         /\ \E i \in OrdersOf(p, committed.orders) :
              committed.orders[i] = <<PyInt(ordSeq), PyInt(req[p].customer_id),
                                      PyInt(req[p].product_id), req[p].order_date>>
         /\ m.order_id = PyInt(ordSeq)
         /\ m.order_date # None
         /\ m.order_date = PyText("2024-01-01T00:00:0" \o ToString(req[p].order_date.v))
         /\ m.customer_name = PyText(Col(c, 1).v \o " " \o Col(c, 2).v)
         /\ m.customer_email = Col(c, 7)
         /\ m.product_name = Col(r, 1)
         /\ m.price = StatedPrice(Col(r, 2))
         /\ m.category = Col(r, 3)

\* an order of customer Ana for the priced product was returned
C5_Witness ==
    \E p \in Workers :
      /\ Done(p, "place_order")
      /\ outcome[p].kind = "returned" /\ outcome[p].type = "dict"
      /\ outcome[p].value.customer_name = PyText("Ana Diaz")
      /\ outcome[p].value.price = PyFloat(1250)
      /\ outcome[p].value.category = PyText("tools")

\* C6: a place_order call naming a customer or a product that does not exist,
\* and meeting no exception while its response is built, never raises and ends
\* in one of two ways: the insert is rejected (or fails), the call rolls back,
\* no orders row of it is persisted and it returns the error string; or, the
\* foreign keys not being enforced, its orders row is committed and it returns a
\* mapping with customer_name "None None" and a null customer_email for a
\* missing customer, and a null product_name and category and price 0.0 for a
\* missing product.  A mapping is never returned without the row committed.
C6_OrderOfMissingRows ==
    \A p \in Workers :
      /\ ( /\ Done(p, "place_order")
           /\ ~ForeignKeysHold(req[p].customer_id, req[p].product_id)
           /\ ~met[p].formatting )
         => LET m == outcome[p].value IN
            /\ outcome[p].kind = "returned"
            /\ \/ /\ outcome[p].type = "str"
                  /\ met[p].rejected \/ met[p].fault
                  /\ met[p].rejected =>
                       m = "Failed to place order due to database error: "
                           \o "foreign key violation"
                  /\ met[p].rolledBack
                  /\ OrdersOf(p, committed.orders) = {}
                  /\ pending = NoRows
               \/ /\ outcome[p].type = "dict"
                  /\ ~fkEnforced
                  /\ Cardinality(OrdersOf(p, committed.orders)) = 1
                  /\ ~HasId(committed.customers, req[p].customer_id)
                       => /\ m.customer_name = PyText("None None")
                          /\ m.customer_email = None
                  /\ ~HasId(products, req[p].product_id)
                       => /\ m.product_name = None
                          /\ m.category = None
                          /\ m.price = PyFloat(0)
            /\ (fkEnforced /\ ~met[p].fault) => met[p].rejected
      /\ ( /\ Done(p, "place_order")
           /\ outcome[p].kind = "returned" /\ outcome[p].type = "dict" )
         => OrdersOf(p, committed.orders) # {}

\* an order naming neither a customer nor a product was committed and returned
C6_Witness ==
    \E p \in Workers :
      /\ Done(p, "place_order")
      /\ outcome[p].kind = "returned" /\ outcome[p].type = "dict"
      /\ outcome[p].value.customer_name = PyText("None None")
      /\ outcome[p].value.product_name = None

\* C7: for every products table, a get_products call that meets no error returns
\* one mapping per stored product, in ascending order of (category,
\* product_name), with price 0.0 where the stored price is NULL or zero and the
\* stored price as a float otherwise; for an empty table it returns the empty
\* list.
C7_ProductsListed ==
    \A p \in Workers :
      /\ ( Done(p, "get_products") /\ ~met[p].fault /\ ~met[p].formatting )
         => LET out == outcome[p].value IN
            /\ outcome[p].kind = "returned" /\ outcome[p].type = "list"
            /\ Len(out) = Len(products)
            /\ \A i \in 1 .. Len(products) :
                 Cardinality({j \in 1 .. Len(out) :
                    out[j] = [product_id |-> Col(products[i], 0),
                              name |-> Col(products[i], 1),
                              price |-> StatedPrice(Col(products[i], 2)),
                              category |-> Col(products[i], 3)]}) = 1
            /\ \A j \in 1 .. Len(out) - 1 :
                 \/ Collate(out[j].category.v) < Collate(out[j + 1].category.v)
                 \/ /\ out[j].category = out[j + 1].category
                    /\ Collate(out[j].name.v) <= Collate(out[j + 1].name.v)
      /\ ( Done(p, "get_products") /\ ~met[p].fault /\ products = <<>> )
         => outcome[p] = Returned("list", <<>>)

\* two products were listed in an order other than the stored one, one of them
\* with a NULL price
C7_Witness ==
    \E p \in Workers :
      /\ Done(p, "get_products")
      /\ outcome[p].kind = "returned"
      /\ Len(outcome[p].value) = 2
      /\ outcome[p].value[1].product_id = PyInt(2)
      /\ outcome[p].value[1].name # outcome[p].value[2].name
      /\ Col(products[2], 2) = None

\* an insert_customer_into_db call returned a mapping though the row its INSERT
\* created is neither committed nor pending
LostInsert(p) ==
    /\ Done(p, "insert_customer_into_db")
    /\ outcome[p].kind = "returned"
    /\ ~HasId(committed.customers, met[p].inserted)
    /\ ~HasId(pending.customers, met[p].inserted)

\* an insert_customer_into_db call returned a row other than the one it created
WrongRow(p) ==
    /\ Done(p, "insert_customer_into_db")
    /\ outcome[p].kind = "returned"
    /\ outcome[p].value.customer_id # PyInt(met[p].inserted)

\* C8: with two calls allowed in flight on the shared connection and cursor, an
\* insert_customer_into_db call returns a row it did not create, or returns
\* though its row is lost, only if another call was in flight during it; and
\* such an interleaving is reachable.
C8_AnomalyOnlyWhenOverlapped ==
    \A p \in Workers : (LostInsert(p) \/ WrongRow(p)) => met[p].overlapped

\* a call overlapped by another reported an insert that is lost, and a call
\* returned a row it did not create
C8_Witness ==
    \E p, q \in Workers : LostInsert(p) /\ WrongRow(q) /\ met[p].overlapped

\* C9 as stated: an unexpected error in insert_customer_into_db or get_customers
\* ends the call without a rollback and with uncommitted work still pending.
C9_LeavesWorkPending ==
    \A p \in Workers :
      ( /\ pc[p] = "done"
        /\ req[p].op \in {"insert_customer_into_db", "get_customers"}
        /\ outcome[p].kind = "unhandled" )
      => ~met[p].rolledBack /\ pending # NoRows

\* C9, amended: an unexpected error in insert_customer_into_db or get_customers
\* propagates unhandled and ends the call without a rollback, and under
\* one-call-at-a-time dispatch leaves no uncommitted work pending and no aborted
\* transaction: a missing key fails before the INSERT runs, and a failure while
\* the response is built follows the commit (insert) or a read (get_customers).
C9_UnhandledWithoutRollback ==
    \A p \in Workers :
      /\ ( /\ Done(p, "insert_customer_into_db")
           /\ ~(CustomerKeys \subseteq DOMAIN req[p].customer_data) )
         => outcome[p] = Unhandled("KeyError") /\ met[p].inserted = 0
      /\ ( /\ pc[p] = "done"
           /\ req[p].op \in {"insert_customer_into_db", "get_customers"}
           /\ met[p].unexpected )
         => /\ outcome[p].kind = "unhandled"
            /\ ~met[p].rolledBack
            /\ pending = NoRows
            /\ txn # "inerror"

\* an insert without the email key failed while a transaction opened by an
\* earlier call on a non-empty customers table was still open
C9_Witness ==
    \E p \in Workers :
      /\ Done(p, "insert_customer_into_db")
      /\ outcome[p] = Unhandled("KeyError")
      /\ txn = "intrans"
      /\ Len(committed.customers) > 0

\* C10 as stated: when place_order returns an error-message string, no orders
\* row created by that call is committed.
C10_NoOrderWhenFailureReported ==
    \A p \in Workers :
      ( /\ Done(p, "place_order")
        /\ outcome[p].kind = "returned" /\ outcome[p].type = "str" )
      => OrdersOf(p, committed.orders) = {}

=============================================================================
